---- MODULE Spec2Model ----
(***************************************************************************)
(* Fixed-step Runge-Kutta simulation of three mechanical models            *)
(* (armDynamics, pendulumDynamics, satelliteDynamics).                     *)
(*                                                                         *)
(* The Python code computes in IEEE-754 binary floating point.  The model  *)
(* keeps that arithmetic and shortens the significand: a number is         *)
(* m * 2^e with a signed significand m of exactly PREC bits (or zero),     *)
(* and every operation rounds its exact result once, to nearest, ties to   *)
(* even.  Exponents are unbounded (no overflow, underflow, NaN or Inf).    *)
(***************************************************************************)
EXTENDS Integers, Sequences, FiniteSets, TLC

\* Bits of significand kept by the modelled floating-point format.
PREC == 11

Pow2 == [i \in 0..30 |-> 2^i]

Abs(n) == IF n < 0 THEN -n ELSE n
Sgn(n) == IF n < 0 THEN -1 ELSE IF n = 0 THEN 0 ELSE 1

Zero == [m |-> 0, e |-> 0]
One == [m |-> Pow2[PREC-1], e |-> 1 - PREC]
Two == [m |-> Pow2[PREC-1], e |-> 2 - PREC]

\* Number of bits of a, for 1 <= a < 2^30.
BitLen(a) == CHOOSE L \in 1..30 : Pow2[L-1] <= a /\ a < Pow2[L]

\* q + 1 when the remainder r is above the half h, or at it with q odd.
RoundQuotient(q, r, h) == IF r > h \/ (r = h /\ q % 2 = 1) THEN q + 1 ELSE q

\* s * q * 2^e, with a rounded-up significand of PREC + 1 bits renormalised.
Carry(s, e, q) ==
  IF q = Pow2[PREC] THEN [m |-> s * Pow2[PREC-1], e |-> e + 1]
  ELSE [m |-> s * q, e |-> e]

\* n * 2^e for n # 0 with k bits more than PREC (fewer when k < 0).
Round(n, e, k) ==
  IF k <= 0 THEN [m |-> n * Pow2[-k], e |-> e + k]
  ELSE Carry(Sgn(n), e + k,
             RoundQuotient(Abs(n) \div Pow2[k], Abs(n) % Pow2[k], Pow2[k-1]))

\* The float nearest to n * 2^e (ties to even).
Normalize(n, e) ==
  IF n = 0 THEN Zero ELSE Round(n, e, BitLen(Abs(n)) - PREC)

FromInt(n) == Normalize(n, 0)

fneg(a) == [m |-> -a.m, e |-> a.e]

\* hi + lo, the exponent of hi not below that of lo, both non-zero.
Align(hi, lo) ==
  IF hi.e - lo.e > PREC + 1 THEN hi
  ELSE Normalize(hi.m * Pow2[hi.e - lo.e] + lo.m, lo.e)

fadd(a, b) ==
  IF a.m = 0 THEN b
  ELSE IF b.m = 0 THEN a
  ELSE IF a.e >= b.e THEN Align(a, b) ELSE Align(b, a)

fsub(a, b) == fadd(a, fneg(b))

fmul(a, b) == Normalize(a.m * b.m, a.e + b.e)

\* Twice the quotient, odd when the division left a remainder.
Sticky(num, den) == 2 * (num \div den) + (IF num % den = 0 THEN 0 ELSE 1)

\* a / b for b # 0.
fdiv(a, b) ==
  IF a.m = 0 THEN Zero
  ELSE Normalize(Sgn(a.m) * Sgn(b.m) * Sticky(Abs(a.m) * Pow2[PREC+2], Abs(b.m)),
                 a.e - b.e - PREC - 3)

\* A decimal literal n/d, e.g. 9.81 is Dec(981, 100).
Dec(n, d) == fdiv(FromInt(n), FromInt(d))

flt(a, b) == fsub(a, b).m < 0
fle(a, b) == fsub(a, b).m <= 0
fabs(a) == [m |-> Abs(a.m), e |-> a.e]

Three == FromInt(3)
Six == FromInt(6)

\* Nearest integer to a (|a| small).
RoundToInt(a) ==
  IF a.m = 0 THEN 0
  ELSE IF a.e >= 0 THEN a.m * Pow2[a.e]
  ELSE IF -a.e > PREC + 1 THEN 0
  ELSE (a.m + Pow2[-a.e-1]) \div Pow2[-a.e]

HalfPi == Dec(355, 226)

\* Taylor kernels on the reduced argument |r| <= pi/4 (about); r2 is r*r.
CosPoly(r2) ==
  fsub(One, fmul(fdiv(r2, Two),
       fsub(One, fmul(fdiv(r2, FromInt(12)),
            fsub(One, fdiv(r2, FromInt(30)))))))

SinPoly(r2) ==
  fsub(One, fmul(fdiv(r2, Six),
       fsub(One, fmul(fdiv(r2, FromInt(20)),
            fsub(One, fdiv(r2, FromInt(42)))))))

CosKernel(r) == CosPoly(fmul(r, r))
SinKernel(r) == fmul(r, SinPoly(fmul(r, r)))

Signed(pos, v) == IF pos THEN v ELSE fneg(v)

\* x = k * pi/2 + r
Quadrant(x) == RoundToInt(fdiv(x, HalfPi))
Reduced(x, k) == fsub(x, fmul(FromInt(k), HalfPi))

CosQuadrant(q, r) ==
  IF q % 2 = 0 THEN Signed(q = 0, CosKernel(r)) ELSE Signed(q = 3, SinKernel(r))

SinQuadrant(q, r) ==
  IF q % 2 = 0 THEN Signed(q = 0, SinKernel(r)) ELSE Signed(q = 1, CosKernel(r))

CosReduce(x, k) == CosQuadrant(k % 4, Reduced(x, k))
SinReduce(x, k) == SinQuadrant(k % 4, Reduced(x, k))

\* np.cos
cos(x) == CosReduce(x, Quadrant(x))

\* np.sin
sin(x) == SinReduce(x, Quadrant(x))

(***************************************************************************)
(* Column vectors (np.array of shape (n,1)) are sequences of floats.       *)
(***************************************************************************)
VAdd(x, y) == [i \in DOMAIN x |-> fadd(x[i], y[i])]
VScale(s, x) == [i \in DOMAIN x |-> fmul(s, x[i])]

\* Result of an evaluation that may raise a Python exception.
Ok(v) == [ok |-> TRUE, v |-> v]
Raise == [ok |-> FALSE, v |-> << >>]

(***************************************************************************)
(* np.linalg.inv of the 2x2 matrix <<<<a, b>>, <<c, d>>>>: LU factorisation*)
(* with partial pivoting, then the identity solved column by column;       *)
(* LinAlgError (Raise) when a pivot is exactly zero.                       *)
(***************************************************************************)
\* back substitution: x2 is known, r1 the pivot row, b1 its right-hand side
BackSubst(r1, b1, x2) == <<fdiv(fsub(b1, fmul(r1[2], x2)), r1[1]), x2>>

\* the solution of the factorised system for the right-hand side (b1, b2)
SolveColumn(r1, l, u22, b1, b2) ==
  BackSubst(r1, b1, fdiv(fsub(b2, fmul(l, b1)), u22))

Columns(c1, c2) == Ok(<< <<c1[1], c2[1]>>, <<c1[2], c2[2]>> >>)

\* cA, cB: the solutions for the right-hand sides (1,0) and (0,1)
Unpermute(swap, cA, cB) == IF swap THEN Columns(cB, cA) ELSE Columns(cA, cB)

Solve(r1, swap, l, u22) ==
  IF u22.m = 0 THEN Raise
  ELSE Unpermute(swap, SolveColumn(r1, l, u22, One, Zero),
                       SolveColumn(r1, l, u22, Zero, One))

Eliminate(r1, r2, swap, l) == Solve(r1, swap, l, fsub(r2[2], fmul(l, r1[2])))

\* r1 is the pivot row
Factor(r1, r2, swap) ==
  IF r1[1].m = 0 THEN Raise ELSE Eliminate(r1, r2, swap, fdiv(r2[1], r1[1]))

inv(M) ==
  IF flt(fabs(M[1][1]), fabs(M[2][1])) THEN Factor(M[2], M[1], TRUE)
  ELSE Factor(M[1], M[2], FALSE)

\* Product of a 2x2 matrix and a 2x1 matrix.
MatVec(A, C) == << fadd(fmul(A[1][1], C[1]), fmul(A[1][2], C[2])),
                   fadd(fmul(A[2][1], C[1]), fmul(A[2][2], C[2])) >>

Det(M) == fsub(fmul(M[1][1], M[2][2]), fmul(M[1][2], M[2][1]))

(***************************************************************************)
(* armDynamics                                                             *)
(***************************************************************************)
\* arm_f taking the first component of whatever it is given as tau
arm_f_first_component(P, state, tau) ==
  LET theta    == state[1]
      thetadot == state[2]
      grav == fmul(fdiv(fmul(fmul(P.m, P.g), P.ell), Two), cos(theta))
      acc  == fmul(fdiv(fdiv(Three, P.m), fmul(P.ell, P.ell)),
                   fsub(fsub(tau[1], fmul(P.b, thetadot)), grav))
  IN Ok(<<thetadot, acc>>)

\* arm_f with theta measured from the vertical: sin for cos
arm_f_sin(P, state, tau) ==
  IF Len(tau) # 1 THEN Raise
  ELSE LET theta    == state[1]
           thetadot == state[2]
           grav == fmul(fdiv(fmul(fmul(P.m, P.g), P.ell), Two), sin(theta))
           acc  == fmul(fdiv(fdiv(Three, P.m), fmul(P.ell, P.ell)),
                        fsub(fsub(tau[1], fmul(P.b, thetadot)), grav))
       IN Ok(<<thetadot, acc>>)

\* tau is the tuple of components passed as the input; a float is <<tau>>.
\* With any other shape the array literal of xdot is ragged and numpy raises.
arm_f(P, state, tau) ==
  IF Len(tau) # 1 THEN Raise
  ELSE LET theta    == state[1]
           thetadot == state[2]
           grav == fmul(fdiv(fmul(fmul(P.m, P.g), P.ell), Two), cos(theta))
           acc  == fmul(fdiv(fdiv(Three, P.m), fmul(P.ell, P.ell)),
                        fsub(fsub(tau[1], fmul(P.b, thetadot)), grav))
       IN Ok(<<thetadot, acc>>)

arm_h(state) == <<state[1]>>

(***************************************************************************)
(* pendulumDynamics                                                        *)
(***************************************************************************)
\* M of a point mass at mid-rod on a massless cart
pendulum_M_point_mass(P, cross) ==
  << <<P.m1, cross>>,
     <<cross, fmul(P.m1, fmul(fdiv(P.ell, Two), fdiv(P.ell, Two)))>> >>

\* M, given its off-diagonal entry m1*(ell/2)*cos(theta)
pendulum_M_cross(P, cross) ==
  << <<fadd(P.m1, P.m2), cross>>,
     <<cross, fmul(P.m1, fdiv(fmul(P.ell, P.ell), Three))>> >>

pendulum_M(P, theta) ==
  pendulum_M_cross(P, fmul(fmul(P.m1, fdiv(P.ell, Two)), cos(theta)))

\* C, given s = sin(theta)
pendulum_C(P, state, F, s) ==
  << fsub(fadd(fmul(fmul(fmul(P.m1, fdiv(P.ell, Two)),
                         fmul(state[4], state[4])), s), F),
          fmul(P.b, state[3])),
     fmul(fmul(fmul(P.m1, P.g), fdiv(P.ell, Two)), s) >>

\* xdot = [zdot, thetadot, zddot, thetaddot]
pendulum_xdot(state, tmp) == Ok(<<state[3], state[4], tmp[1], tmp[2]>>)

\* tmp = np.linalg.inv(M)*C
pendulum_tmp(state, Mi, C) ==
  IF ~Mi.ok THEN Raise ELSE pendulum_xdot(state, MatVec(Mi.v, C))

\* With a u that is not a float the matrix literal of C is ragged and numpy
\* raises.
pendulum_f(P, state, u) ==
  IF Len(u) # 1 THEN Raise
  ELSE pendulum_tmp(state, inv(pendulum_M(P, state[2])),
                    pendulum_C(P, state, u[1], sin(state[2])))

\* pendulum_h reading the cart's velocity for the rod's angle
pendulum_h_wrong_index(state) == <<state[1], state[3]>>

pendulum_h(state) == <<state[1], state[2]>>

(***************************************************************************)
(* satelliteDynamics                                                       *)
(***************************************************************************)
satellite_M(P) == << <<P.Js, Zero>>, <<Zero, P.Jp>> >>

\* satellite_C with the panel's spring acting on phi + theta
satellite_C_spring_sign(P, theta, phi, thetadot, phidot, tau) ==
  << fsub(fsub(tau, fmul(P.b, fsub(thetadot, phidot))),
          fmul(P.k, fsub(theta, phi))),
     fsub(fmul(fneg(P.b), fsub(phidot, thetadot)),
          fmul(P.k, fadd(phi, theta))) >>

satellite_C(P, theta, phi, thetadot, phidot, tau) ==
  << fsub(fsub(tau, fmul(P.b, fsub(thetadot, phidot))),
          fmul(P.k, fsub(theta, phi))),
     fsub(fmul(fneg(P.b), fsub(phidot, thetadot)),
          fmul(P.k, fsub(phi, theta))) >>

\* xdot = [thetadot, phidot, thetaddot, phiddot]
satellite_xdot(state, tmp) == Ok(<<state[3], state[4], tmp[1], tmp[2]>>)

\* tmp = np.linalg.inv(M)*C
satellite_tmp(state, Mi, C) ==
  IF ~Mi.ok THEN Raise ELSE satellite_xdot(state, MatVec(Mi.v, C))

\* With a u that is not a float the matrix literal of C is ragged and numpy
\* raises.
satellite_f(P, state, u) ==
  IF Len(u) # 1 THEN Raise
  ELSE satellite_tmp(state, inv(satellite_M(P)),
                     satellite_C(P, state[1], state[2], state[3], state[4], u[1]))

satellite_h(state) == <<state[1], state[2]>>

(***************************************************************************)
(* Method binding.  An instance is a record: its class, the constants of   *)
(* its P module, and, for the stepper harness, whether _f is overridden by *)
(* a function that returns the same vector for every state and input.      *)
(***************************************************************************)
model_f(mdl, P, state, u) ==
  CASE mdl = "arm"       -> arm_f(P, state, u)
    [] mdl = "pendulum"  -> pendulum_f(P, state, u)
    [] mdl = "satellite" -> satellite_f(P, state, u)

model_h(mdl, state) ==
  CASE mdl = "arm"       -> arm_h(state)
    [] mdl = "pendulum"  -> pendulum_h(state)
    [] mdl = "satellite" -> satellite_h(state)

\* self._f(state, u) inside each class
arm_self_f(self, state, u) ==
  IF self.drv = "const" THEN Ok(self.cvec) ELSE arm_f(self.P, state, u)

pendulum_self_f(self, state, u) ==
  IF self.drv = "const" THEN Ok(self.cvec) ELSE pendulum_f(self.P, state, u)

satellite_self_f(self, state, u) ==
  IF self.drv = "const" THEN Ok(self.cvec) ELSE satellite_f(self.P, state, u)

(***************************************************************************)
(* The steppers, one copy in each class.  Each local F1..F4 is handed on   *)
(* to the rest of the method as it is computed; an exception in _f ends    *)
(* the method before self.state is assigned.                               *)
(***************************************************************************)
\* self.state += self._Ts * self._f(self.state, u)
arm_rk1_add(self, state, F1) ==
  IF ~F1.ok THEN Raise ELSE Ok(VAdd(state, VScale(self.P.Ts, F1.v)))

arm_rk1_step(self, state, u) == arm_rk1_add(self, state, arm_self_f(self, state, u))

\* self.state += self._Ts / 2 * (F1 + F2)
arm_rk2_add(self, state, F1, F2) ==
  IF ~F2.ok THEN Raise
  ELSE Ok(VAdd(state, VScale(fdiv(self.P.Ts, Two), VAdd(F1, F2.v))))

\* F2 = self._f(self.state + self._Ts / 2 * F1, u)
arm_rk2_F2(self, state, u, F1) ==
  IF ~F1.ok THEN Raise
  ELSE arm_rk2_add(self, state, F1.v,
         arm_self_f(self, VAdd(state, VScale(fdiv(self.P.Ts, Two), F1.v)), u))

arm_rk2_step(self, state, u) == arm_rk2_F2(self, state, u, arm_self_f(self, state, u))

\* the sum of _rk4_step with the factor 2 of F3 lost
arm_rk4_add_weights(self, state, F1, F2, F3, F4) ==
  IF ~F4.ok THEN Raise
  ELSE Ok(VAdd(state, VScale(fdiv(self.P.Ts, Six),
          VAdd(VAdd(VAdd(F1, VScale(Two, F2)), F3), F4.v))))

\* self.state += self._Ts / 6 * (F1 + 2 * F2 + 2 * F3 + F4)
arm_rk4_add(self, state, F1, F2, F3, F4) ==
  IF ~F4.ok THEN Raise
  ELSE Ok(VAdd(state, VScale(fdiv(self.P.Ts, Six),
          VAdd(VAdd(VAdd(F1, VScale(Two, F2)), VScale(Two, F3)), F4.v))))

\* F4 = self._f(self.state + self._Ts * F3, u)
arm_rk4_F4(self, state, u, F1, F2, F3) ==
  IF ~F3.ok THEN Raise
  ELSE arm_rk4_add(self, state, F1, F2, F3.v,
         arm_self_f(self, VAdd(state, VScale(self.P.Ts, F3.v)), u))

\* F3 = self._f(self.state + self._Ts / 2 * F2, u)
arm_rk4_F3(self, state, u, F1, F2) ==
  IF ~F2.ok THEN Raise
  ELSE arm_rk4_F4(self, state, u, F1, F2.v,
         arm_self_f(self, VAdd(state, VScale(fdiv(self.P.Ts, Two), F2.v)), u))

\* F2 = self._f(self.state + self._Ts / 2 * F1, u)
arm_rk4_F2(self, state, u, F1) ==
  IF ~F1.ok THEN Raise
  ELSE arm_rk4_F3(self, state, u, F1.v,
         arm_self_f(self, VAdd(state, VScale(fdiv(self.P.Ts, Two), F1.v)), u))

arm_rk4_step(self, state, u) == arm_rk4_F2(self, state, u, arm_self_f(self, state, u))

\* self.state += self._Ts * self._f(self.state, u)
pendulum_rk1_add(self, state, F1) ==
  IF ~F1.ok THEN Raise ELSE Ok(VAdd(state, VScale(self.P.Ts, F1.v)))

pendulum_rk1_step(self, state, u) == pendulum_rk1_add(self, state, pendulum_self_f(self, state, u))

\* self.state += self._Ts / 2 * (F1 + F2)
pendulum_rk2_add(self, state, F1, F2) ==
  IF ~F2.ok THEN Raise
  ELSE Ok(VAdd(state, VScale(fdiv(self.P.Ts, Two), VAdd(F1, F2.v))))

\* F2 = self._f(self.state + self._Ts * F1, u)
pendulum_rk2_F2(self, state, u, F1) ==
  IF ~F1.ok THEN Raise
  ELSE pendulum_rk2_add(self, state, F1.v,
         pendulum_self_f(self, VAdd(state, VScale(self.P.Ts, F1.v)), u))

pendulum_rk2_step(self, state, u) == pendulum_rk2_F2(self, state, u, pendulum_self_f(self, state, u))

\* self.state += self._Ts / 6 * (F1 + 2 * F2 + 2 * F3 + F4)
pendulum_rk4_add(self, state, F1, F2, F3, F4) ==
  IF ~F4.ok THEN Raise
  ELSE Ok(VAdd(state, VScale(fdiv(self.P.Ts, Six),
          VAdd(VAdd(VAdd(F1, VScale(Two, F2)), VScale(Two, F3)), F4.v))))

\* F4 = self._f(self.state + self._Ts * F3, u)
pendulum_rk4_F4(self, state, u, F1, F2, F3) ==
  IF ~F3.ok THEN Raise
  ELSE pendulum_rk4_add(self, state, F1, F2, F3.v,
         pendulum_self_f(self, VAdd(state, VScale(self.P.Ts, F3.v)), u))

\* F3 = self._f(self.state + self._Ts / 2 * F2, u)
pendulum_rk4_F3(self, state, u, F1, F2) ==
  IF ~F2.ok THEN Raise
  ELSE pendulum_rk4_F4(self, state, u, F1, F2.v,
         pendulum_self_f(self, VAdd(state, VScale(fdiv(self.P.Ts, Two), F2.v)), u))

\* F2 = self._f(self.state + self._Ts / 2 * F1, u)
pendulum_rk4_F2(self, state, u, F1) ==
  IF ~F1.ok THEN Raise
  ELSE pendulum_rk4_F3(self, state, u, F1.v,
         pendulum_self_f(self, VAdd(state, VScale(fdiv(self.P.Ts, Two), F1.v)), u))

pendulum_rk4_step(self, state, u) == pendulum_rk4_F2(self, state, u, pendulum_self_f(self, state, u))

\* self.state += self._Ts * self._f(self.state, u)
satellite_rk1_add(self, state, F1) ==
  IF ~F1.ok THEN Raise ELSE Ok(VAdd(state, VScale(self.P.Ts, F1.v)))

satellite_rk1_step(self, state, u) == satellite_rk1_add(self, state, satellite_self_f(self, state, u))

\* self.state += self._Ts / 2 * (F1 + F2)
satellite_rk2_add(self, state, F1, F2) ==
  IF ~F2.ok THEN Raise
  ELSE Ok(VAdd(state, VScale(fdiv(self.P.Ts, Two), VAdd(F1, F2.v))))

\* F2 = self._f(self.state + self._Ts / 2 * F1, u)
satellite_rk2_F2(self, state, u, F1) ==
  IF ~F1.ok THEN Raise
  ELSE satellite_rk2_add(self, state, F1.v,
         satellite_self_f(self, VAdd(state, VScale(fdiv(self.P.Ts, Two), F1.v)), u))

satellite_rk2_step(self, state, u) == satellite_rk2_F2(self, state, u, satellite_self_f(self, state, u))

\* self.state += self._Ts / 6 * (F1 + 2 * F2 + 2 * F3 + F4)
satellite_rk4_add(self, state, F1, F2, F3, F4) ==
  IF ~F4.ok THEN Raise
  ELSE Ok(VAdd(state, VScale(fdiv(self.P.Ts, Six),
          VAdd(VAdd(VAdd(F1, VScale(Two, F2)), VScale(Two, F3)), F4.v))))

\* F4 = self._f(self.state + self._Ts * F3, u)
satellite_rk4_F4(self, state, u, F1, F2, F3) ==
  IF ~F3.ok THEN Raise
  ELSE satellite_rk4_add(self, state, F1, F2, F3.v,
         satellite_self_f(self, VAdd(state, VScale(self.P.Ts, F3.v)), u))

\* F3 = self._f(self.state + self._Ts / 2 * F2, u)
satellite_rk4_F3(self, state, u, F1, F2) ==
  IF ~F2.ok THEN Raise
  ELSE satellite_rk4_F4(self, state, u, F1, F2.v,
         satellite_self_f(self, VAdd(state, VScale(fdiv(self.P.Ts, Two), F2.v)), u))

\* F2 = self._f(self.state + self._Ts / 2 * F1, u)
satellite_rk4_F2(self, state, u, F1) ==
  IF ~F1.ok THEN Raise
  ELSE satellite_rk4_F3(self, state, u, F1.v,
         satellite_self_f(self, VAdd(state, VScale(fdiv(self.P.Ts, Two), F1.v)), u))

satellite_rk4_step(self, state, u) == satellite_rk4_F2(self, state, u, satellite_self_f(self, state, u))

model_rk1_step(self, state, u) ==
  CASE self.cls = "arm"       -> arm_rk1_step(self, state, u)
    [] self.cls = "pendulum"  -> pendulum_rk1_step(self, state, u)
    [] self.cls = "satellite" -> satellite_rk1_step(self, state, u)

model_rk2_step(self, state, u) ==
  CASE self.cls = "arm"       -> arm_rk2_step(self, state, u)
    [] self.cls = "pendulum"  -> pendulum_rk2_step(self, state, u)
    [] self.cls = "satellite" -> satellite_rk2_step(self, state, u)

model_rk4_step(self, state, u) ==
  CASE self.cls = "arm"       -> arm_rk4_step(self, state, u)
    [] self.cls = "pendulum"  -> pendulum_rk4_step(self, state, u)
    [] self.cls = "satellite" -> satellite_rk4_step(self, state, u)

\* the perturbation switched on
MeasurementNoise_on == {Zero, Dec(1, 100)}

\* The Gaussian perturbation of the outputs is commented out in _h: what is
\* added to each output channel is always zero.
MeasurementNoise == {Zero}

Perturb(y, nz) == [i \in DOMAIN y |-> fadd(y[i], nz)]

(***************************************************************************)
(* Bounds of the exploration.                                              *)
(***************************************************************************)
\* update calls explored per run with arbitrary inputs
MaxSteps == 3
\* update calls explored per run while every input so far was the float 0.0
MaxQuietSteps == 10

(***************************************************************************)
(* Configurations (the P modules: physical constants, sample period and   *)
(* initial conditions) and the inputs handed to update.                    *)
(***************************************************************************)
ArmConfigs ==
  {[m |-> One, ell |-> One, b |-> Zero, g |-> Dec(981, 100), Ts |-> Dec(1, 100),
    theta0 |-> th, thetadot0 |-> Zero] : th \in {Zero, Dec(1, 2)}}
  \cup
  {[m |-> Dec(1, 2), ell |-> Dec(3, 10), b |-> Dec(1, 100), g |-> Dec(98, 10),
    Ts |-> Dec(1, 50), theta0 |-> Dec(-3, 1), thetadot0 |-> Dec(1, 5)]}

PendulumConfigs ==
  {[m1 |-> Dec(1, 4), m2 |-> One, ell |-> el, b |-> Dec(5, 100), g |-> Dec(98, 10),
    Ts |-> Dec(1, 100), z0 |-> Zero, theta0 |-> th, zdot0 |-> Zero,
    thetadot0 |-> td] :
      el \in {One, Dec(1, 2)}, th \in {Zero, Dec(1, 2), Dec(3, 1)},
      td \in {Zero, Dec(-2, 1)}}
  \cup
  \* degenerate: a rod of length zero
  {[m1 |-> Dec(1, 4), m2 |-> One, ell |-> Zero, b |-> Dec(5, 100), g |-> Dec(98, 10),
    Ts |-> Dec(1, 100), z0 |-> Zero, theta0 |-> Zero, zdot0 |-> Zero,
    thetadot0 |-> Zero]}

SatelliteConfigs ==
  {[Js |-> J[1], Jp |-> J[2], k |-> kk, b |-> bb, Ts |-> Dec(1, 100),
    theta0 |-> x[1], phi0 |-> x[2], thetadot0 |-> Zero, phidot0 |-> Zero] :
      J \in {<<FromInt(5), One>>, <<Dec(1, 3), Three>>},
      kk \in {Dec(15, 100), Two},
      bb \in {Zero, Dec(5, 100)},
      x \in {<<Dec(3, 10), Dec(3, 10)>>, <<Dec(-1, 1), Dec(-1, 1)>>,
             <<Dec(1, 2), Zero>>}}
  \cup
  \* degenerate: a panel without inertia
  {[Js |-> FromInt(5), Jp |-> Zero, k |-> Dec(15, 100), b |-> Dec(5, 100),
    Ts |-> Dec(1, 100), theta0 |-> Zero, phi0 |-> Zero, thetadot0 |-> Zero,
    phidot0 |-> Zero]}

\* a float is a one-component input; <<One, Two>> is an array of two
Inputs == {<<Zero>>, <<One>>, <<One, Two>>}

VARIABLES
  model,      \* which class the instance is
  P,          \* the constants of the P module
  state,      \* self.state
  output,     \* self.output (armDynamics only)
  pc,         \* position inside update
  u,          \* the argument of the running update
  F1, F2, F3, F4,   \* locals of _rk4_step
  y,          \* the value last returned by update
  outcome,    \* how the last update ended: "none", "ok", "error"
  n,          \* update calls made
  quiet,      \* every input so far was the float 0.0
  xpre,       \* self.state when the running update was called
  writes,     \* assignments to self.state made by the running update
  yprev,      \* the value returned by the update before the last
  stateB, yB, outcomeB,   \* a second run, same configuration and inputs
  drv, cvec, r1, r2, r4   \* stepper harness: derivative used and results

vars == <<model, P, state, output, pc, u, F1, F2, F3, F4, y, outcome, n, quiet,
          xpre, writes, yprev, stateB, yB, outcomeB, drv, cvec, r1, r2, r4>>

arm_init(cfg) == <<cfg.theta0, cfg.thetadot0>>
pendulum_init(cfg) == <<cfg.z0, cfg.theta0, cfg.zdot0, cfg.thetadot0>>
satellite_init(cfg) == <<cfg.theta0, cfg.phi0, cfg.thetadot0, cfg.phidot0>>

Construct ==
  \/ /\ model = "arm"
     /\ P \in ArmConfigs
     /\ state = arm_init(P)
     /\ output = <<Zero>>
  \/ /\ model = "pendulum"
     /\ P \in PendulumConfigs
     /\ state = pendulum_init(P)
     /\ output = << >>
  \/ /\ model = "satellite"
     /\ P \in SatelliteConfigs
     /\ state = satellite_init(P)
     /\ output = << >>

Init ==
  /\ Construct
  /\ pc = "idle"
  /\ u = << >>
  /\ F1 = << >> /\ F2 = << >> /\ F3 = << >> /\ F4 = << >>
  /\ y = << >>
  /\ outcome = "none"
  /\ n = 0
  /\ quiet = TRUE
  /\ xpre = state
  /\ writes = 0
  /\ yprev = << >>
  /\ stateB = state /\ yB = << >> /\ outcomeB = "none"
  /\ drv = "own" /\ cvec = << >> /\ r1 = << >> /\ r2 = << >> /\ r4 = << >>

harness == <<drv, cvec, r1, r2, r4>>

\* the instance
Self == [cls |-> model, P |-> P, drv |-> drv, cvec |-> cvec]

\* update(u), whole, on the second run.
returnB(r) ==
  IF r.ok
  THEN /\ stateB' = r.v
       /\ \E nz \in MeasurementNoise : yB' = Perturb(model_h(model, r.v), nz)
       /\ outcomeB' = "ok"
  ELSE /\ outcomeB' = "error"
       /\ UNCHANGED <<stateB, yB>>

updateB(uu) == returnB(model_rk4_step(Self, stateB, uu))

\* update is entered with argument uu.
update(uu) ==
  /\ pc = "idle"
  /\ n < MaxSteps \/ (quiet /\ n < MaxQuietSteps)
  /\ pc' = "F1"
  /\ u' = uu
  /\ n' = n + 1
  /\ quiet' = (quiet /\ uu = <<Zero>>)
  /\ xpre' = state
  /\ writes' = 0
  /\ updateB(uu)
  /\ UNCHANGED <<model, P, state, output, F1, F2, F3, F4, y, outcome, yprev, harness>>

\* the value of _f becomes F1, or its exception leaves update
StoreF1(r) ==
  IF r.ok THEN F1' = r.v /\ pc' = "F2" /\ UNCHANGED outcome
  ELSE pc' = "idle" /\ outcome' = "error" /\ UNCHANGED F1

\* F1 = self._f(self.state, u)
EvalF1 ==
  /\ pc = "F1"
  /\ StoreF1(model_f(model, P, state, u))
  /\ UNCHANGED <<model, P, state, output, u, F2, F3, F4, y, n, quiet, xpre, writes,
                 yprev, stateB, yB, outcomeB, harness>>

\* the value of _f becomes F2, or its exception leaves update
StoreF2(r) ==
  IF r.ok THEN F2' = r.v /\ pc' = "F3" /\ UNCHANGED outcome
  ELSE pc' = "idle" /\ outcome' = "error" /\ UNCHANGED F2

\* EvalF2 accumulating the half step into self.state in place
EvalF2_in_place ==
  /\ pc = "F2"
  /\ LET x2 == VAdd(state, VScale(fdiv(P.Ts, Two), F1))
         r  == model_f(model, P, x2, u)
     IN IF r.ok
        THEN F2' = r.v /\ state' = x2 /\ pc' = "F3" /\ UNCHANGED outcome
        ELSE pc' = "idle" /\ outcome' = "error" /\ UNCHANGED <<F2, state>>
  /\ UNCHANGED <<model, P, output, u, F1, F3, F4, y, n, quiet, xpre, writes,
                 yprev, stateB, yB, outcomeB, harness>>

\* F2 = self._f(self.state + self._Ts / 2 * F1, u)
EvalF2 ==
  /\ pc = "F2"
  /\ StoreF2(model_f(model, P, VAdd(state, VScale(fdiv(P.Ts, Two), F1)), u))
  /\ UNCHANGED <<model, P, state, output, u, F1, F3, F4, y, n, quiet, xpre, writes,
                 yprev, stateB, yB, outcomeB, harness>>

\* the value of _f becomes F3, or its exception leaves update
StoreF3(r) ==
  IF r.ok THEN F3' = r.v /\ pc' = "F4" /\ UNCHANGED outcome
  ELSE pc' = "idle" /\ outcome' = "error" /\ UNCHANGED F3

\* F3 = self._f(self.state + self._Ts / 2 * F2, u)
EvalF3 ==
  /\ pc = "F3"
  /\ StoreF3(model_f(model, P, VAdd(state, VScale(fdiv(P.Ts, Two), F2)), u))
  /\ UNCHANGED <<model, P, state, output, u, F1, F2, F4, y, n, quiet, xpre, writes,
                 yprev, stateB, yB, outcomeB, harness>>

\* the value of _f becomes F4, or its exception leaves update
StoreF4(r) ==
  IF r.ok THEN F4' = r.v /\ pc' = "write" /\ UNCHANGED outcome
  ELSE pc' = "idle" /\ outcome' = "error" /\ UNCHANGED F4

\* F4 = self._f(self.state + self._Ts * F3, u)
EvalF4 ==
  /\ pc = "F4"
  /\ StoreF4(model_f(model, P, VAdd(state, VScale(P.Ts, F3)), u))
  /\ UNCHANGED <<model, P, state, output, u, F1, F2, F3, y, n, quiet, xpre, writes,
                 yprev, stateB, yB, outcomeB, harness>>

\* self.state += self._Ts / 6 * (F1 + 2 * F2 + 2 * F3 + F4)
WriteState ==
  /\ pc = "write"
  /\ state' = VAdd(state, VScale(fdiv(P.Ts, Six),
                   VAdd(VAdd(VAdd(F1, VScale(Two, F2)), VScale(Two, F3)), F4)))
  /\ writes' = writes + 1
  /\ pc' = "h"
  /\ UNCHANGED <<model, P, output, u, F1, F2, F3, F4, y, outcome, n, quiet, xpre,
                 yprev, stateB, yB, outcomeB, harness>>

\* ReturnOutput with the output taken from the state before the step
ReturnOutput_stale ==
  /\ pc = "h"
  /\ \E nz \in MeasurementNoise : y' = Perturb(model_h(model, xpre), nz)
  /\ output' = IF model = "arm" THEN y' ELSE output
  /\ yprev' = y
  /\ outcome' = "ok"
  /\ pc' = "idle"
  /\ UNCHANGED <<model, P, state, u, F1, F2, F3, F4, n, quiet, xpre, writes,
                 stateB, yB, outcomeB, harness>>

\* y = self._h(); (arm: self.output = y); return y
ReturnOutput ==
  /\ pc = "h"
  /\ \E nz \in MeasurementNoise : y' = Perturb(model_h(model, state), nz)
  /\ output' = IF model = "arm" THEN y' ELSE output
  /\ yprev' = y
  /\ outcome' = "ok"
  /\ pc' = "idle"
  /\ UNCHANGED <<model, P, state, u, F1, F2, F3, F4, n, quiet, xpre, writes,
                 stateB, yB, outcomeB, harness>>

Next ==
  \/ \E uu \in Inputs : update(uu)
  \/ EvalF1
  \/ EvalF2
  \/ EvalF3
  \/ EvalF4
  \/ WriteState
  \/ ReturnOutput

Spec == Init /\ [][Next]_vars

TypeOK ==
  /\ model \in {"arm", "pendulum", "satellite"}
  /\ pc \in {"idle", "F1", "F2", "F3", "F4", "write", "h"}
  /\ outcome \in {"none", "ok", "error"}


(***************************************************************************)
(* Stepper harness: the three steppers of a class applied once to a state, *)
(* with the class's own _f or with _f overridden by a constant function.   *)
(***************************************************************************)
HarnessConfigs(mdl) ==
  CASE mdl = "arm"       -> ArmConfigs
    [] mdl = "pendulum"  -> {c \in PendulumConfigs : c.thetadot0 = Zero /\ c.ell = One}
    [] mdl = "satellite" -> {c \in SatelliteConfigs : c.b = Zero /\ c.k = Two}

HarnessVectors ==
  { <<Zero, Zero, Zero, Zero>>,
    <<Dec(3, 10), Dec(-1, 1), Dec(5, 2), FromInt(7)>>,
    <<Dec(981, 100), Dec(1, 3), Dec(-7, 10), One>>,
    <<Dec(-1234, 1000), Dec(2, 7), FromInt(11), Dec(-5, 9)>> }

Dim(mdl) == IF mdl = "arm" THEN 2 ELSE 4

HarnessInit(mdl, cfg) ==
  CASE mdl = "arm"       -> arm_init(cfg)
    [] mdl = "pendulum"  -> pendulum_init(cfg)
    [] mdl = "satellite" -> satellite_init(cfg)

InitStepper ==
  /\ model \in {"arm", "pendulum", "satellite"}
  /\ P \in HarnessConfigs(model)
  /\ drv \in {"own", "const"}
  /\ IF drv = "const"
     THEN /\ state \in {SubSeq(v, 1, Dim(model)) : v \in HarnessVectors}
          /\ cvec \in {SubSeq(v, 1, Dim(model)) : v \in HarnessVectors}
          /\ u = <<Zero>>
     ELSE /\ state \in {HarnessInit(model, P)}
                       \cup {SubSeq(v, 1, Dim(model)) : v \in HarnessVectors}
          /\ cvec = << >>
          /\ u \in {<<Zero>>, <<One>>}
  /\ pc = "harness"
  /\ output = << >>
  /\ F1 = << >> /\ F2 = << >> /\ F3 = << >> /\ F4 = << >>
  /\ y = << >>
  /\ outcome = "none"
  /\ n = 0
  /\ quiet = TRUE
  /\ xpre = state
  /\ writes = 0
  /\ yprev = << >>
  /\ stateB = state /\ yB = << >> /\ outcomeB = "none"
  /\ r1 = << >> /\ r2 = << >> /\ r4 = << >>

main == <<model, P, state, output, pc, u, F1, F2, F3, F4, y, outcome, n, quiet,
          xpre, writes, yprev, stateB, yB, outcomeB, drv, cvec>>

ApplyRK1 ==
  /\ pc = "harness" /\ r1 = << >>
  /\ r1' = model_rk1_step(Self, state, u).v
  /\ UNCHANGED <<main, r2, r4>>

ApplyRK2 ==
  /\ pc = "harness" /\ r2 = << >>
  /\ r2' = model_rk2_step(Self, state, u).v
  /\ UNCHANGED <<main, r1, r4>>

ApplyRK4 ==
  /\ pc = "harness" /\ r4 = << >>
  /\ r4' = model_rk4_step(Self, state, u).v
  /\ UNCHANGED <<main, r1, r2>>

NextStepper == ApplyRK1 \/ ApplyRK2 \/ ApplyRK4

SpecStepper == InitStepper /\ [][NextStepper]_vars


(***************************************************************************)
(* Properties                                                              *)
(***************************************************************************)
Returned == pc = "idle" /\ outcome = "ok"

\* The RK4 step as the specification writes it, on the class's derivative.
RK4Formula(x, uu) ==
  LET Ts == P.Ts
      k1 == model_f(model, P, x, uu).v
      k2 == model_f(model, P, VAdd(x, VScale(fdiv(Ts, Two), k1)), uu).v
      k3 == model_f(model, P, VAdd(x, VScale(fdiv(Ts, Two), k2)), uu).v
      k4 == model_f(model, P, VAdd(x, VScale(Ts, k3)), uu).v
  IN VAdd(x, VScale(fdiv(Ts, Six),
          VAdd(VAdd(VAdd(k1, VScale(Two, k2)), VScale(Two, k3)), k4)))

Projection(x) == IF model = "arm" THEN <<x[1]>> ELSE <<x[1], x[2]>>

\* C1: when update(u) returns, the stored state is one RK4 step of length Ts
\* from the state at the call, on the model's own derivative, and the value
\* returned is the output function of that new state.
C1_UpdateIsOneRK4Step ==
  Returned => /\ state = RK4Formula(xpre, u)
              /\ y = Projection(RK4Formula(xpre, u))

C1_Witness ==
  /\ Returned /\ n >= 2 /\ model = "pendulum"
  /\ state # xpre /\ Projection(state) # Projection(xpre)

\* C2: an update called with an input that is not a single number ends in an
\* error and leaves the stored state as it was at the call, unwritten.
C2_ArityMismatchRejected ==
  (n > 0 /\ Len(u) # 1) =>
     /\ pc \in {"F1", "idle"}
     /\ state = xpre /\ writes = 0
     /\ pc = "idle" => outcome = "error"

C2_Witness ==
  /\ pc = "idle" /\ Len(u) = 2 /\ outcome = "error"
  /\ n >= 2 /\ y # << >> /\ state = xpre

Increment ==
  VScale(fdiv(P.Ts, Six), VAdd(VAdd(VAdd(F1, VScale(Two, F2)), VScale(Two, F3)), F4))

\* C5: the stored state keeps its length; while an update evaluates the four
\* derivatives the stored state is the state at the call; it is written
\* once, whole, with the increment of this step.
C5_StateReplacedAtomically ==
  /\ Len(state) = Dim(model)
  /\ pc \in {"F1", "F2", "F3", "F4", "write"} => (state = xpre /\ writes = 0)
  /\ pc = "h" => (writes = 1 /\ state = VAdd(xpre, Increment))
  /\ Returned => writes = 1

C5_Witness ==
  /\ pc = "h" /\ n >= 2
  /\ \A i \in 1..Len(state) : state[i] # xpre[i]

AtRest ==
  /\ model = "satellite"
  /\ P.b = Zero /\ P.Js.m > 0 /\ P.Jp.m > 0
  /\ P.theta0 = P.phi0 /\ P.thetadot0 = Zero /\ P.phidot0 = Zero

\* C7: satellite, b = 0, every input 0.0, theta0 = phi0 and both rates 0:
\* the stored state stays the initial state and every returned output is
\* [theta0, phi0].
C7_EquilibriumPreserved ==
  (AtRest /\ quiet) =>
     /\ state = satellite_init(P)
     /\ y # << >> => y = <<P.theta0, P.phi0>>

C7_Witness ==
  /\ AtRest /\ quiet /\ Returned /\ n >= 5
  /\ P.k.m # 0 /\ P.theta0.m # 0

\* the arm released from rest at theta = 0
ArmScenario ==
  /\ model = "arm"
  /\ P.m = One /\ P.ell = One /\ P.b = Zero /\ P.g = Dec(981, 100)
  /\ P.Ts = Dec(1, 100) /\ P.theta0 = Zero /\ P.thetadot0 = Zero

\* C9: arm, m = 1, ell = 1, b = 0, g = 9.81, Ts = 0.01, at rest at theta = 0,
\* input 0.0: each of the first 10 outputs is non-zero, has the sign of the
\* one before it and is larger in magnitude.
C9_ArmDivergesMonotonically ==
  (ArmScenario /\ quiet /\ Returned /\ n <= 10) =>
     /\ y[1].m # 0
     /\ n >= 2 => /\ Sgn(y[1].m) = Sgn(yprev[1].m)
                  /\ flt(fabs(yprev[1]), fabs(y[1]))

C9_Witness ==
  /\ ArmScenario /\ quiet /\ Returned /\ n = 10
  /\ flt(fabs(yprev[1]), fabs(y[1]))

\* the state at which the running update evaluates _f next
EvalPoint ==
  CASE pc = "F1" -> state
    [] pc = "F2" -> VAdd(state, VScale(fdiv(P.Ts, Two), F1))
    [] pc = "F3" -> VAdd(state, VScale(fdiv(P.Ts, Two), F2))
    [] pc = "F4" -> VAdd(state, VScale(P.Ts, F3))

Evaluating == pc \in {"F1", "F2", "F3", "F4"}

\* C10: with positive masses and rod length the pendulum's mass matrix has a
\* positive determinant at every state its derivative is evaluated at, with
\* positive inertias the satellite's has one too, and in those
\* configurations no update fails in the inversion.
C10_MassMatrixRegular ==
  /\ (model = "pendulum" /\ P.m1.m > 0 /\ P.m2.m > 0 /\ P.ell.m > 0) =>
        /\ Evaluating => /\ Det(pendulum_M(P, EvalPoint[2])).m > 0
                         /\ inv(pendulum_M(P, EvalPoint[2])).ok
        /\ (pc = "idle" /\ outcome = "error") => Len(u) # 1
  /\ (model = "satellite" /\ P.Js.m > 0 /\ P.Jp.m > 0) =>
        /\ Det(satellite_M(P)).m > 0
        /\ inv(satellite_M(P)).ok
        /\ (pc = "idle" /\ outcome = "error") => Len(u) # 1

C10_Witness ==
  /\ model = "pendulum" /\ P.m1.m > 0 /\ P.m2.m > 0 /\ P.ell.m > 0
  /\ pc = "F3" /\ n >= 2 /\ Len(u) = 1
  /\ EvalPoint[2] # P.theta0
  /\ Det(pendulum_M(P, EvalPoint[2])) # Det(pendulum_M(P, P.theta0))

\* the RK2 step as the specification writes it, on the class's derivative
RK2Formula(x, uu) ==
  LET Ts == P.Ts
      k1 == model_f(model, P, x, uu).v
      k2 == model_f(model, P, VAdd(x, VScale(Ts, k1)), uu).v
  IN VAdd(x, VScale(fdiv(Ts, Two), VAdd(k1, k2)))

\* C4 (as claimed): in each of the three classes the RK2 step is
\* k1 = f(x,u), k2 = f(x + Ts*k1, u), x + Ts/2*(k1 + k2).
C4_RK2FullStepEverywhere ==
  (pc = "harness" /\ drv = "own" /\ r2 # << >>) => r2 = RK2Formula(state, u)

\* C8 (as claimed): with a constant derivative the RK4 step and the RK1 step
\* give exactly the same new state.
C8_RK4EqualsEulerExactly ==
  (pc = "harness" /\ drv = "const" /\ r1 # << >> /\ r4 # << >>) => r4 = r1

\* Unit roundoff of the format, 2^-PREC.
Roundoff == [m |-> Pow2[PREC-1], e |-> 1 - 2*PREC]

fmax(a, b) == IF flt(a, b) THEN b ELSE a

\* C8 (amended): with a constant derivative c, each component of the RK4
\* step differs from that of the RK1 step x + Ts*c by at most 16 unit
\* roundoffs of the larger of |x| and |Ts*c|.
C8_RK4EqualsEulerToRounding ==
  (pc = "harness" /\ drv = "const" /\ r1 # << >> /\ r4 # << >>) =>
     /\ r1 = VAdd(state, VScale(P.Ts, cvec))
     /\ \A i \in 1..Len(state) :
          fle(fabs(fsub(r4[i], r1[i])),
              fmul(FromInt(16),
                   fmul(Roundoff, fmax(fabs(state[i]), fabs(fmul(P.Ts, cvec[i]))))))

C8_Witness ==
  /\ pc = "harness" /\ drv = "const" /\ r1 # << >> /\ r4 # << >>
  /\ \E i \in 1..Len(state) : r4[i] # r1[i]
  /\ \E i \in 1..Len(state) : r4[i] = r1[i] /\ cvec[i].m # 0
====
